---- MODULE Spec2Model ----
(***************************************************************************)
(* Model of fisheye/primer_design/main.py: reverse_complement,             *)
(* sequence_pickup, self_match, normalization, primer_design and main.     *)
(*                                                                         *)
(* A DNA string is a sequence of one-character strings.  Python indices    *)
(* are 0-based; Slice translates them to the 1-based sequences.      *)
(***************************************************************************)
EXTENDS Integers, Sequences, FiniteSets, TLC

VARIABLES
    pc,            \* position of the running function
    rc_seq,        \* reverse_complement: the argument seq
    rc_res,        \* reverse_complement: the returned string
    rc_res2,       \* reverse_complement applied to rc_res
    genelist,      \* main: the gene identifiers, in file order
    df_gtf,        \* main: the annotation records, in file order
    sp_row,        \* sequence_pickup: number of genelist rows already handled
    cds_pick,      \* sequence_pickup: chr_, start, end, strand of the last gene
    seq_lst,       \* sequence_pickup: the dict seq_lst as <<name, seq>> items in insertion order
    main_k,        \* main: number of seq_lst items already designed
    saved,         \* main: the csv files written, as <<name, table>> items
    pd_seq,        \* primer_design: the argument seq
    pd_i,          \* primer_design: the loop variable i
    df_lst,        \* primer_design: the rows appended so far
    df,            \* primer_design: the returned data frame
    sm_probe,      \* self_match: the argument probe
    sm_min_match,  \* self_match: the argument min_match
    sm_i,          \* self_match: the outer loop variable i
    sm_j,          \* self_match: the inner loop variable j
    match_pairs,   \* self_match: the running count
    nm_value,      \* normalization: the four arguments
    conbined_score \* normalization: the returned score

vars == <<pc, rc_seq, rc_res, rc_res2, genelist, df_gtf, sp_row, cds_pick,
          seq_lst, main_k, saved, pd_seq, pd_i, df_lst, df, sm_probe,
          sm_min_match, sm_i, sm_j, match_pairs, nm_value, conbined_score>>

rcVars   == <<rc_seq, rc_res, rc_res2>>
mainVars == <<genelist, df_gtf, sp_row, cds_pick, seq_lst, main_k, saved>>
pdVars   == <<pd_seq, pd_i, df_lst, df>>
smVars   == <<sm_probe, sm_min_match, sm_i, sm_j, match_pairs>>
nmVars   == <<nm_value, conbined_score>>

----------------------------------------------------------------------------
(* Bounds of the checked inputs *)

MaxLen      == 3   \* longest string given to reverse_complement on its own
MaxExtra    == 2   \* longest gene sequence is min_length + MaxExtra bases
MaxRecords  == 3   \* most annotation records in df_gtf
MaxProbeLen == 5   \* longest probe given to self_match on its own
MaxMetric   == 2   \* largest metric given to normalization on its own

----------------------------------------------------------------------------
(* Python helpers *)

Min2(a, b) == IF a <= b THEN a ELSE b
Max2(a, b) == IF a >= b THEN a ELSE b

\* s[a:b] for 0 <= a, clipped at the end of s as Python clips a slice
Slice(s, a, b) == SubSeq(s, a + 1, Min2(b, Len(s)))

\* s[::-1]
Reversed(s) == [p \in 1..Len(s) |-> s[Len(s) + 1 - p]]

\* Counter(s)[c]
CountOf(s, c) == Cardinality({p \in DOMAIN s : s[p] = c})

RECURSIVE SumSeq(_)
SumSeq(s) == IF s = <<>> THEN 0 ELSE Head(s) + SumSeq(Tail(s))

----------------------------------------------------------------------------
(* get_base_map / reverse_complement *)

ValidBases == {"A", "T", "C", "G", "a", "t", "c", "g", "N", "n"}

\* the byte b'\0' that fills every slot of the table not assigned below
NUL == "NUL"

\* a character of the 256-slot table that is not one of the ten assigned
OtherChars == {"X"}

Chars == ValidBases \cup OtherChars

BASEMAP_upper ==
    [c \in Chars \cup {NUL} |->
        CASE c = "A" -> "T" [] c = "T" -> "A" [] c = "C" -> "G" [] c = "G" -> "C"
          [] c = "a" -> "T" [] c = "t" -> "A" [] c = "c" -> "G" [] c = "g" -> "C"
          [] c = "N" -> "N" [] c = "n" -> "N" [] OTHER -> NUL]

BASEMAP ==
    [c \in Chars \cup {NUL} |->
        CASE c = "A" -> "T" [] c = "T" -> "A" [] c = "C" -> "G" [] c = "G" -> "C"
          [] c = "a" -> "t" [] c = "t" -> "a" [] c = "c" -> "g" [] c = "g" -> "c"
          [] c = "N" -> "N" [] c = "n" -> "n" [] OTHER -> NUL]

reverse_complement(s) ==
    LET res == Reversed(s)
    IN  [p \in 1..Len(res) |-> BASEMAP[res[p]]]

IsValidDNA(s) == \A p \in DOMAIN s : s[p] \in ValidBases

RCInputs == UNION {[1..n -> Chars] : n \in 0..MaxLen}

----------------------------------------------------------------------------
(* normalization *)

\* the value numpy gives for 0/0, as the record of 0/sqrt(0)
NaN == [num |-> 0, den2 |-> 0]

IsNaN(x) == x.den2 = 0

\* The score is kept exact.  The metrics are taken in hundredths (fold_score
\* is rounded to 2 decimals), dev[p] is 4*(value[p] - value_mean) and sq is
\* 64*value_std^2, so that sum((value - value_mean)/value_std) is
\* 2*sum(dev)/sqrt(sq): the record [num, den2] stands for num/sqrt(den2).
normalization_intmean(match_pairs_pad, match_pairs_amp, region, fold_score) ==
    LET val   == <<100 * match_pairs_pad, 100 * match_pairs_amp,
                   100 * region, fold_score>>
        total == SumSeq(val)
        dev   == [p \in 1..4 |-> 4 * (val[p] - (total \div 4))]
        sq    == SumSeq([p \in 1..4 |-> dev[p] * dev[p]])
    IN  IF sq = 0 THEN NaN ELSE [num |-> 2 * SumSeq(dev), den2 |-> sq]

normalization(match_pairs_pad, match_pairs_amp, region, fold_score) ==
    LET val   == <<100 * match_pairs_pad, 100 * match_pairs_amp,
                   100 * region, fold_score>>
        total == SumSeq(val)
        dev   == [p \in 1..4 |-> 4 * val[p] - total]
        sq    == SumSeq([p \in 1..4 |-> dev[p] * dev[p]])
    IN  IF sq = 0 THEN NaN ELSE [num |-> 2 * SumSeq(dev), den2 |-> sq]

\* fold scores, in hundredths, given to normalization on its own
NormFolds == {25 * f : f \in (0 - 4 * MaxMetric)..(4 * MaxMetric)}

NormInputs == (0..MaxMetric) \X (0..MaxMetric) \X (0..MaxMetric) \X NormFolds

----------------------------------------------------------------------------
(* self_match *)

\* the condition of the if statement, for the offsets i and j
match_cond(probe, probe_re, min_match, i, j) ==
    LET tem    == Slice(probe, i, min_match + i)
        tem_re == Slice(probe_re, j, min_match + j)
    IN  tem = tem_re /\ i + j + min_match - 2 # Len(probe)

\* range(0, length-min_match+1)
match_range(probe, min_match) == 0..(Len(probe) - min_match)

self_match(probe, min_match) ==
    LET probe_re == reverse_complement(probe)
        offs     == match_range(probe, min_match)
    IN  Cardinality({o \in offs \X offs :
                        match_cond(probe, probe_re, min_match, o[1], o[2])})

\* min_match = 4 in the signature of self_match
DefaultMinMatch == 4

DNA == {"A", "C", "G", "T"}

ProbeInputs == UNION {[1..n -> DNA] : n \in 0..MaxProbeLen}

----------------------------------------------------------------------------
(* primer_design *)

\* min_length = 40 in the signature of primer_design
min_length == 40

PadLinker ==
    <<"C", "C", "A", "G", "T", "G", "C", "G", "T", "C", "T", "A", "T", "T", "T", "A", "G", "T", "G", "G", "A", "G", "C", "C", "T", "G", "C", "A", "G", "T">>

AmpLinker ==
    <<"A", "C", "T", "G", "C", "A", "G", "G", "C", "T", "C", "C", "A">>

\* RNA.fold_compound(tem).mfe()[1] rounded to 2 decimals is an external
\* value: any of these, in hundredths
FoldScores == {-150, 0}

\* conbined_score is a float: the exact value plus a rounding error of err
\* units in the last place
RoundErr == {0, 1}

cg(tem) == CountOf(tem, "G") + CountOf(tem, "C")

seg1(tem) == Slice(tem, 0, 13)
seg2(tem) == Slice(tem, 13, 26)
seg3(tem) == Slice(tem, 27, 40)
seg4(tem) == <<tem[26 + 1]>>

tm1(tem) == 2 * (13 - cg(seg1(tem))) + 4 * cg(seg1(tem))
tm2(tem) == 2 * (13 - cg(seg2(tem))) + 4 * cg(seg2(tem))
tm3(tem) == 2 * (14 - cg(seg3(tem))) + 4 * cg(seg3(tem))

Max3(a, b, c) == Max2(a, Max2(b, c))
Min3(a, b, c) == Min2(a, Min2(b, c))

pad_probe(tem) ==
    reverse_complement(seg1(tem)) \o PadLinker \o reverse_complement(seg2(tem))

amp_probe(tem) ==
    reverse_complement(seg3(tem)) \o seg4(tem) \o AmpLinker

\* the float stored in the row
FloatOf(exact, err) ==
    [num |-> exact.num, den2 |-> exact.den2,
     err |-> IF IsNaN(exact) THEN 0 ELSE err]

\* the list appended to df_lst for the window tem, given the two self_match
\* counts of its probes
ScanRow(tem, match_pairs_pad, match_pairs_amp, fold_score, err) ==
    LET region == Max3(tm1(tem), tm2(tem), tm3(tem))
                  - Min3(tm1(tem), tm2(tem), tm3(tem))
    IN  [point1         |-> match_pairs_pad,
         point2         |-> match_pairs_amp,
         tm_region      |-> region,
         tm1            |-> tm1(tem),
         tm2            |-> tm2(tem),
         tm3            |-> tm3(tem),
         RNAfold_score  |-> fold_score,
         conbined_score |-> FloatOf(normalization(match_pairs_pad,
                                match_pairs_amp, region, fold_score), err),
         primer1        |-> pad_probe(tem),
         primer2        |-> amp_probe(tem)]

\* seq[i:min_length+i]
window(seq, i) == Slice(seq, i, min_length + i)

\* the last value of range(0, len(seq)-min_length+1)
last_offset_short(seq) == Len(seq) - min_length - 1

last_offset(seq) == Len(seq) - min_length

Sign(x) == IF x > 0 THEN 1 ELSE IF x < 0 THEN -1 ELSE 0

\* a < b for two floats that are not NaN
FloatLess(a, b) ==
    LET ka == Sign(a.num) * a.num * a.num * b.den2
        kb == Sign(b.num) * b.num * b.num * a.den2
    IN  ka < kb \/ (ka = kb /\ a.err < b.err)

\* row a sorts before row b: ascending, NaN last
RowBefore(a, b) ==
    /\ ~IsNaN(a.conbined_score)
    /\ IsNaN(b.conbined_score) \/ FloatLess(a.conbined_score, b.conbined_score)

\* insert row r into the sorted rows s, after the rows it does not precede
RECURSIVE InsertRow(_, _)
InsertRow(s, r) ==
    IF s = <<>> THEN <<r>>
    ELSE IF RowBefore(r, Head(s)) THEN <<r>> \o s
    ELSE <<Head(s)>> \o InsertRow(Tail(s), r)

\* df.sort_values(['conbined_score']): a new, sorted frame
RECURSIVE sort_values(_)
sort_values(rows) ==
    IF rows = <<>> THEN <<>>
    ELSE InsertRow(sort_values(SubSeq(rows, 1, Len(rows) - 1)), rows[Len(rows)])

\* the frame primer_design returns: df itself, the sorted copy is dropped
returned_frame_sorted(frame, sorted) == sorted

returned_frame(frame, sorted) == frame

Rep(motif, n) == [p \in 1..n |-> motif[((p - 1) % Len(motif)) + 1]]

Motifs ==
    { <<"G">>, <<"A">>, <<"A", "C", "G", "T", "T">>,
      <<"G", "c", "N", "T", "A", "C", "C">> }

GeneSeqs ==
    {Rep(m, n) : m \in Motifs, n \in (min_length - 1)..(min_length + MaxExtra)}

----------------------------------------------------------------------------
(* read_gtf, the genome and sequence_pickup *)

\* one row of df_gtf; read_gtf adds length = end - start
GtfRow(chr, type, start, end, strand, gene_name) ==
    [chr |-> chr, type |-> type, start |-> start, end |-> end,
     strand |-> strand, gene_name |-> gene_name, length |-> end - start]

GtfRows ==
    { GtfRow("chr1", "CDS",  100, 141, "+", "g1"),
      GtfRow("chr1", "CDS",   90, 131, "-", "g1"),
      GtfRow("chr1", "CDS",  100, 141, "-", "g1"),
      GtfRow("chr1", "CDS",  100, 142, "+", "g1"),
      GtfRow("chr1", "CDS",  100, 140, "+", "g1"),
      GtfRow("chr2", "CDS",   10,  51, "+", "g2"),
      GtfRow("chr2", "exon",  10,  60, "+", "g2") }

\* the rows of the runs that go on to design primers
MainGtfRows ==
    { GtfRow("chr1", "CDS",  90, 131, "-", "g1"),
      GtfRow("chr1", "CDS", 100, 140, "+", "g1"),
      GtfRow("chr2", "CDS",  10,  51, "+", "g2") }

GeneLists == { <<"g1">>, <<"g1", "g2">>, <<"g2", "g1">> }

SeqsOver(S, n) == UNION {[1..m -> S] : m \in 1..n}

\* the reference genome: base q (0-based) of chromosome chr
GenomeMotif ==
    [c \in {"chr1", "chr2"} |->
        IF c = "chr1" THEN <<"A", "C", "G", "T", "T">>
        ELSE <<"G", "G", "A", "T", "C", "C", "A">>]

\* fa[chr][start:end].seq
fa(chr, start, end) ==
    [p \in 1..(end - start) |->
        GenomeMotif[chr][((start + p - 1) % Len(GenomeMotif[chr])) + 1]]

\* the order of the strings that occur as group keys
StrRank == [x \in {"chr1", "chr2", "+", "-"} |->
               CASE x = "+" -> 43 [] x = "-" -> 45
                 [] x = "chr1" -> 1 [] x = "chr2" -> 2]

GroupKey(r) == <<r.chr, r.start, r.end, r.length, r.strand>>

\* lexicographic order of two group keys
KeyLess(a, b) ==
    LET ka == <<StrRank[a[1]], a[2], a[3], a[4], StrRank[a[5]]>>
        kb == <<StrRank[b[1]], b[2], b[3], b[4], StrRank[b[5]]>>
    IN  \E p \in 1..5 : ka[p] < kb[p] /\ \A q \in 1..(p - 1) : ka[q] = kb[q]

RECURSIVE SortKeys(_)
SortKeys(S) ==
    IF S = {} THEN <<>>
    ELSE LET m == CHOOSE x \in S : \A y \in S \ {x} : KeyLess(x, y)
         IN  <<m>> \o SortKeys(S \ {m})

\* the distinct keys of rows in the order of their first appearance
RECURSIVE FirstSeen(_)
FirstSeen(rows) ==
    IF rows = <<>> THEN <<>>
    ELSE LET front == FirstSeen(SubSeq(rows, 1, Len(rows) - 1))
             key   == GroupKey(rows[Len(rows)])
         IN  IF \E p \in DOMAIN front : front[p] = key THEN front
             ELSE Append(front, key)

\* one row of the grouped frame: the key columns and the count in 'type'
GroupRow(rows, key) ==
    [chr |-> key[1], start |-> key[2], end |-> key[3], length |-> key[4],
     strand |-> key[5],
     type |-> Cardinality({p \in DOMAIN rows : GroupKey(rows[p]) = key})]

groupby_count_unsorted(rows) ==
    LET keys == FirstSeen(rows)
    IN  [p \in DOMAIN keys |-> GroupRow(rows, keys[p])]

\* df_cds.groupby(by=[...], as_index=False).count(): groups in key order
groupby_count(rows) ==
    LET keys == SortKeys({GroupKey(rows[p]) : p \in DOMAIN rows})
    IN  [p \in DOMAIN keys |-> GroupRow(rows, keys[p])]

\* Series.max() of a column with at least one value
ColumnMax(S) == CHOOSE x \in S : \A y \in S : y <= x

\* df_cds of the gene name
cds_rows(gtf, name, min_len) ==
    LET IsGene(r) == r.gene_name = name
        IsCds(r)  == r.type = "CDS"
        IsLong(r) == r.length > min_len
    IN  SelectSeq(SelectSeq(SelectSeq(gtf, IsGene), IsCds), IsLong)

cnts_max_all(cds_cnts) == cds_cnts

\* cds_cnts[cds_cnts['type'] == cds_cnts['type'].max()]
cnts_max(cds_cnts) ==
    LET IsMax(r) == r.type = ColumnMax({cds_cnts[p].type : p \in DOMAIN cds_cnts})
    IN  SelectSeq(cds_cnts, IsMax)

\* cnts_max[cnts_max['length'] == cnts_max['length'].max()]
cds_select(cnts) ==
    LET IsMax(r) == r.length = ColumnMax({cnts[p].length : p \in DOMAIN cnts})
    IN  SelectSeq(cnts, IsMax)

\* the frame whose row 0 sequence_pickup reads for the gene name
gene_select(gtf, name, min_len) ==
    cds_select(cnts_max(groupby_count(cds_rows(gtf, name, min_len))))

\* seq_lst[name] = seq on a dict kept as items in insertion order
DictSet(d, name, val) ==
    IF \E p \in DOMAIN d : d[p][1] = name
    THEN [p \in DOMAIN d |-> IF d[p][1] = name THEN <<name, val>> ELSE d[p]]
    ELSE Append(d, <<name, val>>)

DictKeys(d) == {d[p][1] : p \in DOMAIN d}

----------------------------------------------------------------------------
(* Initial values of the variables of the functions that are not running *)

RCIdle   == rc_seq = <<>> /\ rc_res = <<>> /\ rc_res2 = <<>>
MainIdle == /\ genelist = <<>> /\ df_gtf = <<>> /\ sp_row = 0
            /\ cds_pick = <<>> /\ seq_lst = <<>> /\ main_k = 0 /\ saved = <<>>
PDIdle   == pd_seq = <<>> /\ pd_i = 0 /\ df_lst = <<>> /\ df = <<>>
SMIdle   == /\ sm_probe = <<>> /\ sm_min_match = DefaultMinMatch
            /\ sm_i = 0 /\ sm_j = 0 /\ match_pairs = 0
NMIdle   == nm_value = <<0, 0, 0, 0>> /\ conbined_score = NaN

----------------------------------------------------------------------------
(* reverse_complement, called once and then on its own result *)

RCCall ==
    /\ pc = "rc_call"
    /\ rc_res' = reverse_complement(rc_seq)
    /\ pc' = "rc_once"
    /\ UNCHANGED <<rc_seq, rc_res2, mainVars, pdVars, smVars, nmVars>>

RCCallAgain ==
    /\ pc = "rc_once"
    /\ rc_res2' = reverse_complement(rc_res)
    /\ pc' = "rc_twice"
    /\ UNCHANGED <<rc_seq, rc_res, mainVars, pdVars, smVars, nmVars>>

InitRC ==
    /\ pc = "rc_call"
    /\ rc_seq \in RCInputs /\ rc_res = <<>> /\ rc_res2 = <<>>
    /\ MainIdle /\ PDIdle /\ SMIdle /\ NMIdle

NextRC == RCCall \/ RCCallAgain

SpecRC == InitRC /\ [][NextRC]_vars

----------------------------------------------------------------------------
(* normalization *)

NMCall ==
    /\ pc = "nm_call"
    /\ conbined_score' = normalization(nm_value[1], nm_value[2], nm_value[3],
                                       nm_value[4])
    /\ pc' = "nm_done"
    /\ UNCHANGED <<nm_value, rcVars, mainVars, pdVars, smVars>>

InitNM ==
    /\ pc = "nm_call"
    /\ nm_value \in NormInputs /\ conbined_score = NaN
    /\ RCIdle /\ MainIdle /\ PDIdle /\ SMIdle

NextNM == NMCall

SpecNM == InitNM /\ [][NextNM]_vars

----------------------------------------------------------------------------
(* self_match, one comparison of the inner loop at a time *)

SMCompare ==
    /\ pc = "sm_loop"
    /\ sm_i \in match_range(sm_probe, sm_min_match)
    /\ match_pairs' =
          IF match_cond(sm_probe, reverse_complement(sm_probe), sm_min_match,
                        sm_i, sm_j)
          THEN match_pairs + 1 ELSE match_pairs
    /\ IF sm_j + 1 \in match_range(sm_probe, sm_min_match)
       THEN sm_j' = sm_j + 1 /\ sm_i' = sm_i
       ELSE sm_j' = 0 /\ sm_i' = sm_i + 1
    /\ UNCHANGED <<pc, sm_probe, sm_min_match, rcVars, mainVars, pdVars, nmVars>>

SMReturn ==
    /\ pc = "sm_loop"
    /\ sm_i \notin match_range(sm_probe, sm_min_match)
    /\ pc' = "sm_done"
    /\ UNCHANGED <<smVars, rcVars, mainVars, pdVars, nmVars>>

InitSM ==
    /\ pc = "sm_loop"
    /\ sm_probe \in ProbeInputs
    /\ sm_min_match \in 2..DefaultMinMatch
    /\ sm_i = 0 /\ sm_j = 0 /\ match_pairs = 0
    /\ RCIdle /\ MainIdle /\ PDIdle /\ NMIdle

NextSM == SMCompare \/ SMReturn

SpecSM == InitSM /\ [][NextSM]_vars

----------------------------------------------------------------------------
(* primer_design *)

\* one iteration of the loop over the window offsets
PDLoop ==
    /\ pc = "pd_loop"
    /\ pd_i <= last_offset(pd_seq)
    /\ LET tem             == window(pd_seq, pd_i)
           match_pairs_pad == self_match(pad_probe(tem), DefaultMinMatch)
           match_pairs_amp == self_match(amp_probe(tem), DefaultMinMatch)
       IN  \E fold_score \in FoldScores, err \in RoundErr :
               df_lst' = Append(df_lst, ScanRow(tem, match_pairs_pad,
                                    match_pairs_amp, fold_score, err))
    /\ pd_i' = pd_i + 1
    /\ UNCHANGED <<pc, pd_seq, df, rcVars, mainVars, smVars, nmVars>>

\* pd.DataFrame(df_lst), the column names, the dropped sort, return df
PDReturn ==
    /\ pc = "pd_loop"
    /\ pd_i > last_offset(pd_seq)
    /\ df_lst # <<>>
    /\ df' = returned_frame(df_lst, sort_values(df_lst))
    /\ pc' = "pd_done"
    /\ UNCHANGED <<pd_seq, pd_i, df_lst, rcVars, mainVars, smVars, nmVars>>

\* ten column names set on the frame of an empty df_lst, which has no column
PDRaise ==
    /\ pc = "pd_loop"
    /\ pd_i > last_offset(pd_seq)
    /\ df_lst = <<>>
    /\ pc' = "ValueError"
    /\ UNCHANGED <<pdVars, rcVars, mainVars, smVars, nmVars>>

InitPD ==
    /\ pc = "pd_loop"
    /\ pd_seq \in GeneSeqs /\ pd_i = 0 /\ df_lst = <<>> /\ df = <<>>
    /\ RCIdle /\ MainIdle /\ SMIdle /\ NMIdle

NextPD == PDLoop \/ PDReturn \/ PDRaise

SpecPD == InitPD /\ [][NextPD]_vars

----------------------------------------------------------------------------
(* sequence_pickup *)

\* one iteration of the loop over genelist, for a gene with a row to read
SPGene ==
    /\ pc = "sp_loop"
    /\ sp_row < Len(genelist)
    /\ LET name == genelist[sp_row + 1]
           sel  == gene_select(df_gtf, name, min_length)
       IN  /\ sel # <<>>
           /\ cds_pick' = [chr_ |-> sel[1].chr, start |-> sel[1].start,
                           end |-> sel[1].end, strand |-> sel[1].strand]
           /\ LET fwd == fa(sel[1].chr, sel[1].start, sel[1].end)
                  sq  == IF sel[1].strand = "-" THEN reverse_complement(fwd)
                         ELSE fwd
              IN  seq_lst' = DictSet(seq_lst, name, sq)
    /\ sp_row' = sp_row + 1
    /\ UNCHANGED <<pc, genelist, df_gtf, main_k, saved, rcVars, pdVars, smVars,
                   nmVars>>

\* cds_select.iloc[0] on an empty frame: IndexError, which nothing catches
SPRaise ==
    /\ pc = "sp_loop"
    /\ sp_row < Len(genelist)
    /\ gene_select(df_gtf, genelist[sp_row + 1], min_length) = <<>>
    /\ pc' = "IndexError"
    /\ UNCHANGED <<mainVars, rcVars, pdVars, smVars, nmVars>>

SPReturn ==
    /\ pc = "sp_loop"
    /\ sp_row = Len(genelist)
    /\ pc' = "main_loop"
    /\ UNCHANGED <<mainVars, rcVars, pdVars, smVars, nmVars>>

InitSP ==
    /\ pc = "sp_loop"
    /\ genelist \in GeneLists
    /\ df_gtf \in SeqsOver(GtfRows, MaxRecords)
    /\ sp_row = 0 /\ cds_pick = <<>> /\ seq_lst = <<>>
    /\ main_k = 0 /\ saved = <<>>
    /\ RCIdle /\ PDIdle /\ SMIdle /\ NMIdle

NextSP == SPGene \/ SPRaise \/ SPReturn

SpecSP == InitSP /\ [][NextSP]_vars

----------------------------------------------------------------------------
(* main *)

\* the loop over seq_lst.items(): call primer_design(seq)
MainDesign ==
    /\ pc = "main_loop"
    /\ main_k < Len(seq_lst)
    /\ pd_seq' = seq_lst[main_k + 1][2]
    /\ pd_i' = 0
    /\ df_lst' = <<>>
    /\ pc' = "pd_loop"
    /\ UNCHANGED <<df, rcVars, mainVars, smVars, nmVars>>

\* res_df.to_csv(out_path)
MainSave ==
    /\ pc = "pd_done"
    /\ saved' = Append(saved, <<seq_lst[main_k + 1][1], df>>)
    /\ main_k' = main_k + 1
    /\ pc' = "main_loop"
    /\ UNCHANGED <<genelist, df_gtf, sp_row, cds_pick, seq_lst, rcVars, pdVars,
                   smVars, nmVars>>

MainExit ==
    /\ pc = "main_loop"
    /\ main_k = Len(seq_lst)
    /\ pc' = "exit"
    /\ UNCHANGED <<mainVars, rcVars, pdVars, smVars, nmVars>>

InitMain ==
    /\ pc = "sp_loop"
    /\ genelist \in GeneLists
    /\ df_gtf \in SeqsOver(MainGtfRows, MaxRecords - 1)
    /\ sp_row = 0 /\ cds_pick = <<>> /\ seq_lst = <<>>
    /\ main_k = 0 /\ saved = <<>>
    /\ RCIdle /\ PDIdle /\ SMIdle /\ NMIdle

\* every sequence main designs for is longer than min_length, so the
\* ValueError of primer_design does not occur here
NextMain ==
    \/ SPGene \/ SPRaise \/ SPReturn
    \/ MainDesign \/ PDLoop \/ PDReturn \/ MainSave \/ MainExit

SpecMain == InitMain /\ [][NextMain]_vars

Init == InitMain
Next == NextMain
Spec == SpecMain

----------------------------------------------------------------------------
(* Properties *)

Returned(rcpc) == rcpc \in {"rc_once", "rc_twice"}

\* C3: for every string s over {A,T,C,G,a,t,c,g,N,n},
\* reverse_complement(reverse_complement(s)) = s, and reverse_complement(s)
\* has the length of s and only characters of that alphabet.
C3_Involution ==
    IsValidDNA(rc_seq) =>
        /\ Returned(pc) => Len(rc_res) = Len(rc_seq) /\ IsValidDNA(rc_res)
        /\ pc = "rc_twice" => rc_res2 = rc_seq

C3_Witness ==
    /\ pc = "rc_twice"
    /\ IsValidDNA(rc_seq)
    /\ \E p \in DOMAIN rc_seq : rc_seq[p] \in {"a", "t", "c", "g", "n"}
    /\ rc_res # rc_seq
    /\ rc_res2 = rc_seq

\* C7: a sequence with a character outside {A,T,C,G,a,t,c,g,N,n} makes
\* reverse_complement fail with UnmappedBase instead of returning, and no
\* returned string has a null byte or another character outside the alphabet.
C7_UnmappedBaseFails ==
    Returned(pc) => IsValidDNA(rc_seq) /\ IsValidDNA(rc_res)

\* the four metrics as normalization stacks them, in hundredths
StackedValue(v) == <<100 * v[1], 100 * v[2], 100 * v[3], v[4]>>

AllEqual(v) == \A p, q \in DOMAIN v : v[p] = v[q]

\* C10: for four metric values that are not all equal the score of
\* normalization is exactly zero in exact arithmetic; when they are all equal
\* the standard deviation is zero and the score is 0/0; so every score is
\* zero or undefined and no two windows are told apart.
C10_ScoreIsZero ==
    pc = "nm_done" =>
        /\ conbined_score.num = 0
        /\ AllEqual(StackedValue(nm_value)) <=> IsNaN(conbined_score)

C10_Witness ==
    /\ pc = "nm_done"
    /\ \A p, q \in 1..4 :
          p # q => StackedValue(nm_value)[p] # StackedValue(nm_value)[q]
    /\ conbined_score.num = 0
    /\ ~IsNaN(conbined_score)

\* the probe positions (0-based) under the substring of the probe at i
ProbeSpan(min_match_len, o) == o..(o + min_match_len - 1)

\* the probe positions under the substring of the reverse complement at j:
\* index q of the reverse complement is position length-1-q of the probe
RevSpan(length, min_match_len, o) ==
    {length - 1 - q : q \in o..(o + min_match_len - 1)}

\* C5: of the offset pairs (i, j) with equal substrings, self_match leaves
\* out exactly those whose two substrings lie on the same positions of the
\* probe, and counts every other one once.
C5_ExcludesSameLocation ==
    [][ ( /\ pc = "sm_loop"
          /\ sm_i \in match_range(sm_probe, sm_min_match)
          /\ Slice(sm_probe, sm_i, sm_min_match + sm_i)
               = Slice(reverse_complement(sm_probe), sm_j, sm_min_match + sm_j) )
        => match_pairs' =
              IF ProbeSpan(sm_min_match, sm_i)
                   = RevSpan(Len(sm_probe), sm_min_match, sm_j)
              THEN match_pairs ELSE match_pairs + 1 ]_vars

\* the row describes the window tem
RowOfWindow(row, tem) ==
    /\ row.primer1 = pad_probe(tem)
    /\ row.primer2 = amp_probe(tem)
    /\ row.tm1 = tm1(tem)
    /\ row.tm2 = tm2(tem)

Offsets(s) == 0..(Len(s) - min_length)

\* C1: a sequence of length N >= 40 gives exactly N-40+1 candidates, one for
\* each offset 0..N-40 and none for another offset (one candidate for N = 40,
\* two for N = 41).
C1_OnePerOffset ==
    /\ pc = "ValueError" => Len(pd_seq) < min_length
    /\ pc = "pd_done" =>
          /\ Len(df) = Len(pd_seq) - min_length + 1
          /\ \A o \in Offsets(pd_seq) :
                \E r \in DOMAIN df : RowOfWindow(df[r], window(pd_seq, o))
          /\ \A r \in DOMAIN df :
                \E o \in Offsets(pd_seq) : RowOfWindow(df[r], window(pd_seq, o))

C1_Witness ==
    /\ pc = "pd_done"
    /\ Len(pd_seq) = min_length + 1
    /\ Len(df) = 2
    /\ df[1].primer1 # df[2].primer1

\* 2*(len-GC) + 4*GC on the bases of the segment sg
Wallace(sg) == 2 * (Len(sg) - cg(sg)) + 4 * cg(sg)

\* C4: tm1, tm2 and tm3 of every row are 2*(len-GC) + 4*GC of window[0:13],
\* window[13:26] and window[27:40], with len the number of bases of the
\* segment.
C4_WallaceRule ==
    \A r \in DOMAIN df_lst :
        LET tem == window(pd_seq, r - 1)
        IN  /\ df_lst[r].tm1 = Wallace(Slice(tem, 0, 13))
            /\ df_lst[r].tm2 = Wallace(Slice(tem, 13, 26))
            /\ df_lst[r].tm3 = Wallace(Slice(tem, 27, 40))

\* C9: the returned table has its rows in ascending offset order, row k for
\* the window at offset k, whatever the scores are: the sort changes nothing.
C9_OffsetOrder ==
    pc = "pd_done" =>
        /\ Len(df) = Len(df_lst)
        /\ \A r \in DOMAIN df : RowOfWindow(df[r], window(pd_seq, r - 1))
        /\ df = df_lst

C9_Witness ==
    /\ pc = "pd_done"
    /\ sort_values(df_lst) # df_lst
    /\ \E r \in DOMAIN df :
          ~RowOfWindow(sort_values(df_lst)[r], window(pd_seq, r - 1))
    /\ df = df_lst

\* the rows of df_gtf that are CDS records of the gene, longer than 40
Viable(name) ==
    {p \in DOMAIN df_gtf :
        /\ df_gtf[p].gene_name = name
        /\ df_gtf[p].type = "CDS"
        /\ df_gtf[p].end - df_gtf[p].start > 40}

SameInterval(a, b) ==
    /\ a.chr = b.chr /\ a.start = b.start /\ a.end = b.end
    /\ a.strand = b.strand

\* the number of viable records of the gene with the interval of record p
Support(name, p) ==
    Cardinality({q \in Viable(name) : SameInterval(df_gtf[q], df_gtf[p])})

IntervalLength(p) == df_gtf[p].end - df_gtf[p].start

\* the viable records with the largest support and, among them, largest length
Best(name) ==
    {p \in Viable(name) :
        \A q \in Viable(name) :
            \/ Support(name, q) < Support(name, p)
            \/ /\ Support(name, q) = Support(name, p)
               /\ IntervalLength(q) <= IntervalLength(p)}

PickIs(p) ==
    /\ cds_pick.chr_ = df_gtf[p].chr /\ cds_pick.start = df_gtf[p].start
    /\ cds_pick.end = df_gtf[p].end /\ cds_pick.strand = df_gtf[p].strand

\* C2: whatever the order of the annotation records, the region picked for a
\* gene with CDS records longer than 40 is of a group with the largest support
\* count and, among those groups, of the largest length.
C2_MaxSupportThenLength ==
    sp_row >= 1 => \E p \in Best(genelist[sp_row]) : PickIs(p)

C2_Witness ==
    /\ sp_row >= 1
    /\ \E p \in Best(genelist[sp_row]) :
          /\ PickIs(p)
          /\ \E q \in Viable(genelist[sp_row]) :
                /\ Support(genelist[sp_row], q) < Support(genelist[sp_row], p)
                /\ IntervalLength(q) > IntervalLength(p)

\* two or more distinct intervals tie on support and length
Tied(name) ==
    \E p, q \in Best(name) : ~SameInterval(df_gtf[p], df_gtf[q])

FirstInRecordOrder(name) ==
    CHOOSE p \in Best(name) : \A q \in Best(name) : p <= q

\* C8 as claimed: when distinct intervals tie on support count and length,
\* the one whose record comes first in the record order is picked.
C8_FirstInRecordOrder ==
    (sp_row >= 1 /\ Tied(genelist[sp_row]))
        => PickIs(FirstInRecordOrder(genelist[sp_row]))

\* C8 amended: when distinct intervals tie on support count and length, the
\* one that is least in the ascending order of (chromosome, start, end,
\* strand) is picked, whatever the order of the records.
C8_LeastKey ==
    (sp_row >= 1 /\ Tied(genelist[sp_row]))
        => \E p \in Best(genelist[sp_row]) :
              /\ PickIs(p)
              /\ \A q \in Best(genelist[sp_row]) :
                    \/ SameInterval(df_gtf[p], df_gtf[q])
                    \/ KeyLess(GroupKey(df_gtf[p]), GroupKey(df_gtf[q]))

C8_Witness ==
    /\ sp_row >= 1
    /\ Tied(genelist[sp_row])
    /\ ~PickIs(FirstInRecordOrder(genelist[sp_row]))
    /\ \E p \in Best(genelist[sp_row]) : PickIs(p)

InList(name) == \E p \in DOMAIN genelist : genelist[p] = name

\* C6: a gene without a CDS record longer than 40 is a failure of that gene
\* only: when the run has ended, every gene of the list that has such a
\* record has its table written.
C6_RunContinues ==
    pc \in {"exit", "IndexError"} =>
        \A p \in DOMAIN genelist :
            Viable(genelist[p]) # {} => genelist[p] \in DictKeys(saved)

====
